---- MODULE Spec2Model ----
(***************************************************************************)
(* The per-frame fall-counting pipeline of                                 *)
(* falldetection_openpifpaf/show/painters.py:                              *)
(*   AnnotationPainter.annotations -> KeypointPainter.annotations          *)
(*     geometry extraction (annotation / _draw_skeleton)                   *)
(*     -> CentroidTracker.update -> FallDetector.update                    *)
(*     -> de-duplication loop (fallcount, imgwriter.write, prev_fallen).   *)
(* core.CentroidTracker, core.FallDetector and core.ImgWriter are not part *)
(* of painters.py; they are modelled from their contracts in spec.md       *)
(* (sections 4.1, 4.2, 6, 7).                                              *)
(***************************************************************************)
EXTENDS Integers, Sequences, FiniteSets

VARIABLES
    framecount,   \* KeypointPainter.framecount
    fallcount,    \* KeypointPainter.fallcount
    centroid,     \* KeypointPainter.centroid (NoCentroid models -1)
    persons,      \* KeypointPainter.persons    : id -> (mid_x, mid_y, x_, y_, w_, h_)
    fallen,       \* KeypointPainter.fallen     : id -> (x_, y_, w_, h_)
    prev_fallen,  \* KeypointPainter.prev_fallen: id -> (x_, y_, w_, h_)
    ct,           \* KeypointPainter.ct    (core.CentroidTracker state)
    falls,        \* KeypointPainter.falls (core.FallDetector state)
    imgwriter,    \* KeypointPainter.imgwriter: the write() calls received so far
    stream,       \* the stream identifier the frame driver passes (ID / stream)
    fps,          \* the fps the frame driver passes
    frameNo,      \* number of frames the frame driver has presented
    driver,       \* the frame driver: how many frames it presents, of which kind of run
    lastCall,     \* observation of the most recent frame call
    clsPrev,      \* the classifier's most recent result: [frame, ids]
    transitions,  \* <<id, frame>>: id entered the classifier's fallen-set in that frame
    pending       \* ids whose fall transition hit a sink failure and that stayed fallen since

vars == <<framecount, fallcount, centroid, persons, fallen, prev_fallen, ct, falls,
          imgwriter, stream, fps, frameNo, driver, lastCall, clsPrev, transitions, pending>>

(***************************************************************************)
(* Bounds of the model.                                                    *)
(***************************************************************************)
MaxFrames == 4      \* frames of a pipeline run
MaxGeomFrames == 2  \* frames of a geometry run
MaxAnns == 2        \* annotations per frame of a geometry run

\* (stream identifier, fps) of the streams the painter is run on
StreamConfigs == {[stream |-> "cam0", fps |-> 1], [stream |-> "cam1", fps |-> 2]}

(***************************************************************************)
(* Values.                                                                 *)
(***************************************************************************)
NoCentroid == <<>>
EmptyMap == [x \in {} |-> 0]
None == [kind |-> "None", val |-> 0]
Raised == [kind |-> "raise", val |-> 0]
Int_(n) == [kind |-> "int", val |-> n]

\* Pose annotations: vis = np.any(v > 0); (x5, y5), (x6, y6) the shoulder
\* keypoints (0 when not detected); bbox = ann.bbox() = (x, y, w, h).
Standing   == [vis |-> TRUE,  x5 |-> 8,   y5 |-> 10,  x6 |-> 12,  y6 |-> 10,
               bbox |-> <<8, 8, 4, 20>>]
Lying      == [vis |-> TRUE,  x5 |-> 190, y5 |-> 200, x6 |-> 210, y6 |-> 200,
               bbox |-> <<195, 195, 30, 10>>]
NoShoulder == [vis |-> TRUE,  x5 |-> 0,   y5 |-> 0,   x6 |-> 0,   y6 |-> 0,
               bbox |-> <<50, 50, 10, 10>>]
Invisible  == [vis |-> FALSE, x5 |-> 0,   y5 |-> 0,   x6 |-> 0,   y6 |-> 0,
               bbox |-> <<0, 0, 0, 0>>]
\* a single detected keypoint (the left shoulder): a zero-area bounding box
OnePoint   == [vis |-> TRUE,  x5 |-> 200, y5 |-> 200, x6 |-> 0,   y6 |-> 0,
               bbox |-> <<200, 200, 0, 0>>]

AnnKinds == {Standing, Lying, NoShoulder, Invisible, OnePoint}

RECURSIVE SeqsUpTo(_, _)
SeqsUpTo(S, n) ==
    IF n = 0 THEN {<<>>}
    ELSE LET shorter == SeqsUpTo(S, n - 1)
         IN shorter \cup {Append(s, x) : s \in {t \in shorter : Len(t) = n - 1}, x \in S}

\* the frames of a geometry run: every list of up to MaxAnns annotations
AnnLists == SeqsUpTo(AnnKinds, MaxAnns)

\* the frames of a pipeline run: no detection at all, one or two trackable
\* subjects, a detection without a centroid
PipelineFrames == {<<>>, <<Standing>>, <<Standing, Lying>>, <<NoShoulder>>}

Min(S) == CHOOSE x \in S : \A y \in S : x <= y

RECURSIVE SortedSeq(_)
SortedSeq(S) == IF S = {} THEN <<>> ELSE <<Min(S)>> \o SortedSeq(S \ {Min(S)})

(***************************************************************************)
(* Geometry extraction: KeypointPainter.annotation / _draw_skeleton.       *)
(***************************************************************************)
\* annotation(), lines 447-454: boxes narrower / lower than 5 are padded.
PadBox(bbox) ==
    LET x_ == bbox[1]
        y_ == bbox[2]
        w_ == bbox[3]
        h_ == bbox[4]
    IN <<IF w_ < 5 THEN x_ - 2 ELSE x_,
         IF h_ < 5 THEN y_ - 2 ELSE y_,
         IF w_ < 5 THEN w_ + 4 ELSE w_,
         IF h_ < 5 THEN h_ + 4 ELSE h_>>

\* _draw_skeleton(), lines 182-198: the shoulder mid-point of one coordinate.
\* (the annotation values keep a + b even, so / 2 is exact)
Mid(a, b) ==
    IF a # 0 /\ b = 0 THEN a
    ELSE IF a = 0 /\ b # 0 THEN b
    ELSE IF a # 0 /\ b # 0 THEN (a + b) \div 2
    ELSE 0

\* _draw_skeleton(), lines 179-203: the value of self.centroid after the call,
\* given its value before.
DrawSkeletonCentroid(before, ann, box) ==
    IF ~ann.vis THEN before
    ELSE LET mid_x == Mid(ann.x5, ann.x6)
             mid_y == Mid(ann.y5, ann.y6)
         IN IF mid_x # 0 /\ mid_y # 0
            THEN <<mid_x, mid_y, box[1], box[2], box[3], box[4]>>
            ELSE NoCentroid

\* annotation(), lines 416-459 (show_frontier_order is False by default, so
\* _draw_skeleton runs once): self.centroid after painting one annotation.
AnnotationCentroid(before, ann) ==
    DrawSkeletonCentroid(before, ann, PadBox(ann.bbox))

\* annotations(), line 361: self.centroid is reset before each annotation.
ResetCentroid(before) == NoCentroid

\* annotations(), lines 358-388: the loop over the frame's annotations.
\* Returns the centroids list, for each entry the index of the annotation it
\* came from, and the final self.centroid.
RECURSIVE CollectCentroids(_, _, _, _, _)
CollectCentroids(annotations, i, cur, centroids, src) ==
    IF i > Len(annotations)
    THEN [centroids |-> centroids, src |-> src, centroid |-> cur]
    ELSE LET c == AnnotationCentroid(ResetCentroid(cur), annotations[i])
         IN IF c # NoCentroid
            THEN CollectCentroids(annotations, i + 1, c, Append(centroids, c), Append(src, i))
            ELSE CollectCentroids(annotations, i + 1, c, centroids, src)

BBoxOf(c) == <<c[3], c[4], c[5], c[6]>>

(***************************************************************************)
(* core.CentroidTracker (spec.md 4.1): greedy nearest-centroid association *)
(* in ascending id order, fresh ids for unmatched observations, eviction   *)
(* after more than the tolerated number of missed frames.                  *)
(***************************************************************************)
MaxDistance == 50
MaxDisappearedSeconds == 1

Tolerance(fps_) == MaxDisappearedSeconds * fps_

Dist2(c, o) == (c[1] - o[1]) * (c[1] - o[1]) + (c[2] - o[2]) * (c[2] - o[2])

\* the closest free observation within the threshold (0: none); ties go to
\* the first observation in input order
Closest(c, obs, free) ==
    LET near == {i \in free : Dist2(c, obs[i]) < MaxDistance * MaxDistance}
    IN IF near = {} THEN 0
       ELSE CHOOSE i \in near :
               \A j \in near : \/ Dist2(c, obs[i]) < Dist2(c, obs[j])
                               \/ (Dist2(c, obs[i]) = Dist2(c, obs[j]) /\ i <= j)

RECURSIVE Associate(_, _, _, _)
Associate(ids, objects, obs, free) ==
    IF ids = <<>> THEN {}
    ELSE LET i == Closest(objects[Head(ids)], obs, free)
         IN IF i = 0
            THEN Associate(Tail(ids), objects, obs, free)
            ELSE {<<Head(ids), i>>} \cup Associate(Tail(ids), objects, obs, free \ {i})

CentroidTracker_update(t, obs, fps_) ==
    LET m == Associate(SortedSeq(DOMAIN t.objects), t.objects, obs, 1 .. Len(obs))
        matched == {p[1] : p \in m}
        obsOf(id) == (CHOOSE p \in m : p[1] = id)[2]
        kept == {id \in DOMAIN t.objects :
                    id \in matched \/ t.disappeared[id] + 1 <= Tolerance(fps_)}
        fresh == SortedSeq((1 .. Len(obs)) \ {p[2] : p \in m})
        newIds == {t.nextObjectID + k - 1 : k \in 1 .. Len(fresh)}
    IN [objects |-> [id \in kept \cup newIds |->
                        IF id \in newIds THEN obs[fresh[id - t.nextObjectID + 1]]
                        ELSE IF id \in matched THEN obs[obsOf(id)]
                        ELSE t.objects[id]],
        disappeared |-> [id \in kept \cup newIds |->
                        IF id \in kept /\ id \notin matched
                        THEN t.disappeared[id] + 1 ELSE 0],
        nextObjectID |-> t.nextObjectID + Len(fresh),
        calls |-> t.calls + 1]

(***************************************************************************)
(* core.FallDetector (spec.md 4.2).  The geometric predicate is left open  *)
(* by the contract, so the fallen-set is any subset of the ids the         *)
(* classifier may flag: ids of the current tracks that already have        *)
(* history (an id seen for the first time is not fallen).                  *)
(***************************************************************************)
FallCandidates(f, tracks) == DOMAIN tracks \cap f.seen

FallDetector_update(f, tracks, frame_index) ==
    [seen |-> DOMAIN tracks, calls |-> f.calls + 1, frame_index |-> frame_index]

FallenMap(tracks, F) == [id \in F |-> BBoxOf(tracks[id])]

(***************************************************************************)
(* The de-duplication loop of KeypointPainter.annotations, lines 398-406.  *)
(***************************************************************************)
\* line 401: if ID not in self.prev_fallen
IsNewFall(ID, prev) == ID \notin DOMAIN prev

\* a counter that is set instead of incremented
CountFallAssigns(count) == 1

\* line 402: self.fallcount += 1
CountFall(count) == count + 1

\* a snapshot labelled with the counter as it was before the increment
WriteArgsStale(stream_, count) == <<stream_, count - 1>>

\* line 406: self.imgwriter.write(stream, self.fallcount)
WriteArgs(stream_, count) == <<stream_, count>>

\* The loop over self.fallen.items() in insertion order.  failAt is the
\* position, among this call's write() calls, of the one that raises
\* (0: none raises); an exception leaves the loop and the method.
RECURSIVE FallLoop(_, _, _, _, _, _)
FallLoop(ids, prev, count, stream_, failAt, writes) ==
    IF ids = <<>>
    THEN [fallcount |-> count, writes |-> writes, raised |-> FALSE]
    ELSE IF IsNewFall(Head(ids), prev)
    THEN LET c == CountFall(count)
             args == WriteArgs(stream_, c)
             ok == Len(writes) + 1 # failAt
             w == Append(writes, [stream |-> args[1], seq |-> args[2],
                                  ok |-> ok, id |-> Head(ids)])
         IN IF ok
            THEN FallLoop(Tail(ids), prev, c, stream_, failAt, w)
            ELSE [fallcount |-> c, writes |-> w, raised |-> TRUE]
    ELSE FallLoop(Tail(ids), prev, count, stream_, failAt, writes)

\* line 408, reached only when the loop did not raise
StorePrevFallen(prev, cur, raised) == IF raised THEN prev ELSE cur

\* line 412, reached only when the loop did not raise
AdvanceFrame(count, raised) == IF raised THEN count ELSE count + 1

\* line 414
ReturnValue(count, raised) == IF raised THEN Raised ELSE Int_(count)

(***************************************************************************)
(* State.                                                                  *)
(***************************************************************************)
NoCall ==
    [frame |-> -1, ran |-> FALSE, annotations |-> <<>>, centroids |-> <<>>,
     src |-> <<>>, stages |-> <<>>, trackerOut |-> EmptyMap, clsTracks |-> EmptyMap,
     clsFrame |-> -1, prevClsFrame |-> -1, firstCall |-> FALSE, prevUsed |-> {},
     clsPrev |-> [frame |-> -1, ids |-> {}], fallenOut |-> {}, countBefore |-> 0,
     framecountBefore |-> 0, trackerCallsBefore |-> 0, writes |-> <<>>,
     raised |-> FALSE, ret |-> None, pendingBefore |-> {}]

\* KeypointPainter.__init__, lines 165-176
Painter ==
    /\ framecount = 0
    /\ fallcount = 0
    /\ centroid = NoCentroid
    /\ ct = [objects |-> EmptyMap, disappeared |-> EmptyMap, nextObjectID |-> 0,
             calls |-> 0]
    /\ falls = [seen |-> {}, calls |-> 0, frame_index |-> -1]
    /\ persons = EmptyMap
    /\ fallen = EmptyMap
    /\ prev_fallen = EmptyMap
    /\ imgwriter = <<>>
    /\ \E c \in StreamConfigs : stream = c.stream /\ fps = c.fps
    /\ frameNo = 0
    /\ lastCall = NoCall
    /\ clsPrev = [frame |-> -1, ids |-> {}]
    /\ transitions = {}
    /\ pending = {}

Init == Painter /\ driver = [frames |-> MaxFrames, run |-> "pipeline"]

InitGeom == Painter /\ driver = [frames |-> MaxGeomFrames, run |-> "geometry"]

\* the annotation lists the frame driver may present
Poses == IF driver.run = "pipeline" THEN PipelineFrames ELSE AnnLists

(***************************************************************************)
(* KeypointPainter.annotations, lines 356-414.  F is the fallen-set the    *)
(* classifier returns, failAt the outcome of the sink.                     *)
(***************************************************************************)
KeypointPainter_frame(annotations, F, failAt) ==
    LET g == CollectCentroids(annotations, 1, centroid, <<>>, <<>>)
        t == CentroidTracker_update(ct, g.centroids, fps)
        tracks == t.objects
        cur == FallenMap(tracks, F)
        d == FallLoop(SortedSeq(DOMAIN cur), prev_fallen, fallcount, stream, failAt, <<>>)
    IN /\ centroid' = g.centroid
       /\ ct' = t
       /\ persons' = tracks
       /\ falls' = FallDetector_update(falls, tracks, framecount)
       /\ fallen' = cur
       /\ fallcount' = d.fallcount
       /\ imgwriter' = imgwriter \o [k \in 1 .. Len(d.writes) |->
                           [stream |-> d.writes[k].stream, seq |-> d.writes[k].seq,
                            ok |-> d.writes[k].ok, id |-> d.writes[k].id,
                            frame |-> frameNo]]
       /\ prev_fallen' = StorePrevFallen(prev_fallen, cur, d.raised)
       /\ framecount' = AdvanceFrame(framecount, d.raised)
       /\ clsPrev' = [frame |-> frameNo, ids |-> F]
       /\ transitions' = transitions \cup {<<id, frameNo>> : id \in F \ clsPrev.ids}
       /\ pending' = (pending \cap F) \cup
                     {d.writes[k].id : k \in {j \in 1 .. Len(d.writes) : ~d.writes[j].ok}}
       /\ lastCall' =
            [frame |-> frameNo, ran |-> TRUE, annotations |-> annotations,
             centroids |-> g.centroids, src |-> g.src,
             stages |-> <<"Tracker", "Classifier", "Deduplicator">>,
             trackerOut |-> tracks, clsTracks |-> tracks,
             clsFrame |-> framecount, prevClsFrame |-> falls.frame_index,
             firstCall |-> (falls.calls = 0), prevUsed |-> DOMAIN prev_fallen,
             clsPrev |-> clsPrev, fallenOut |-> F, countBefore |-> fallcount,
             framecountBefore |-> framecount, trackerCallsBefore |-> ct.calls,
             writes |-> d.writes, raised |-> d.raised,
             ret |-> ReturnValue(d.fallcount, d.raised), pendingBefore |-> pending]

KeypointPainter_annotations(annotations) ==
    LET g == CollectCentroids(annotations, 1, centroid, <<>>, <<>>)
        tracks == CentroidTracker_update(ct, g.centroids, fps).objects
    IN \E F \in SUBSET FallCandidates(falls, tracks) :
          \E failAt \in 0 .. Cardinality({id \in F : IsNewFall(id, prev_fallen)}) :
             KeypointPainter_frame(annotations, F, failAt)

(***************************************************************************)
(* AnnotationPainter.annotations, lines 32-48: the per-frame entry point.  *)
(* The frame driver hands it pose annotations (class 'Annotation') only.   *)
(* With no annotation, by_classname is empty, no painter is called and     *)
(* fallcount stays None.                                                   *)
(***************************************************************************)
AnnotationPainter_annotations(annotations) ==
    /\ frameNo < driver.frames
    /\ frameNo' = frameNo + 1
    /\ UNCHANGED <<stream, fps, driver>>
    /\ IF annotations = <<>>
       THEN /\ lastCall' = [NoCall EXCEPT !.frame = frameNo,
                                          !.countBefore = fallcount,
                                          !.framecountBefore = framecount,
                                          !.trackerCallsBefore = ct.calls,
                                          !.clsPrev = clsPrev,
                                          !.pendingBefore = pending]
            /\ UNCHANGED <<framecount, fallcount, centroid, persons, fallen,
                           prev_fallen, ct, falls, imgwriter, clsPrev,
                           transitions, pending>>
       ELSE KeypointPainter_annotations(annotations)

Next == \E annotations \in Poses : AnnotationPainter_annotations(annotations)

Spec == Init /\ [][Next]_vars

SpecGeom == InitGeom /\ [][Next]_vars

(***************************************************************************)
(* Properties.                                                             *)
(***************************************************************************)
\* the sink raised in the most recent frame call
SinkFailedInCall == \E k \in 1 .. Len(lastCall.writes) : ~lastCall.writes[k].ok

\* the sink never raised so far
SinkReliableSoFar == \A k \in 1 .. Len(imgwriter) : imgwriter[k].ok

\* ids of the frame's fallen-set that were not in the fallen-set the
\* classifier returned in the previous frame call, in fallen-set order
NewlyFallen == SortedSeq(lastCall.fallenOut \ lastCall.clsPrev.ids)

\* the same, against the previous-fallen-set the painter had stored
NewAgainstStored == SortedSeq(lastCall.fallenOut \ lastCall.prevUsed)

\* number of times id entered the classifier's fallen-set
Entries(id) == Cardinality({t \in transitions : t[1] = id})

\* number of sink invocations made for id; each one directly follows the
\* counter increment made for id (lines 402-406), so this is also the number
\* of counter increments id caused
Invocations(id) == Cardinality({k \in 1 .. Len(imgwriter) : imgwriter[k].id = id})

\* C1: in every call of KeypointPainter.annotations the fall counter does not
\* decrease and grows by exactly the number of ids that are in this frame's
\* fallen-set and were not in the previous frame's fallen-set.
C1_CounterCountsNewFalls ==
    lastCall.ran =>
        /\ fallcount >= lastCall.countBefore
        /\ fallcount - lastCall.countBefore = Len(NewlyFallen)

\* C2: an id that entered the fallen-set twice (FALLEN -> NOT_FALLEN ->
\* FALLEN) has caused exactly two counter increments and exactly two
\* snapshot-sink invocations.
C2_FlapCountsTwice ==
    \A id \in {t[1] : t \in transitions} :
        Entries(id) = 2 => Invocations(id) = 2

\* C3: as claimed, stated for the frames whose sink calls all return (a
\* raising sink is the subject of C5): the sink is invoked exactly once
\* per newly-fallen id and for no other id, and every invocation is passed
\* the stream identifier and the updated counter, the previous counter plus
\* the number of newly-fallen ids of the frame.
C3_SinkGetsUpdatedCounter ==
    (lastCall.ran /\ ~lastCall.raised) =>
        /\ Len(lastCall.writes) = Len(NewlyFallen)
        /\ \A k \in 1 .. Len(lastCall.writes) :
              /\ lastCall.writes[k].id = NewlyFallen[k]
              /\ lastCall.writes[k].stream = stream
              /\ lastCall.writes[k].seq = lastCall.countBefore + Len(NewlyFallen)

\* C3: as amended: the sink invocations of a frame are made, in fallen-set
\* order, for the ids of the fallen-set that are not in the stored
\* previous-fallen-set, one per id, up to and including the first invocation
\* that raises (all of them when none raises); the k-th invocation is passed
\* the stream identifier and the running counter, previous counter + k.
C3_SinkGetsRunningCounter ==
    lastCall.ran =>
        /\ Len(lastCall.writes) <= Len(NewAgainstStored)
        /\ \A k \in 1 .. Len(lastCall.writes) :
              /\ lastCall.writes[k].id = NewAgainstStored[k]
              /\ lastCall.writes[k].stream = stream
              /\ lastCall.writes[k].seq = lastCall.countBefore + k
              /\ (k < Len(lastCall.writes) => lastCall.writes[k].ok)
        /\ (~lastCall.raised => /\ Len(lastCall.writes) = Len(NewAgainstStored)
                                /\ ~SinkFailedInCall)
        /\ (lastCall.raised => SinkFailedInCall)

\* two ids became fallen in one frame and both sink invocations returned
C3_Witness ==
    /\ lastCall.ran
    /\ ~lastCall.raised
    /\ Len(lastCall.writes) = 2
    /\ lastCall.writes[2].seq = lastCall.countBefore + 2

\* C4: the previous-fallen-set the deduplicator compares against is empty on
\* the first frame that reaches it, and on every later frame n it is the
\* fallen-set the classifier computed for frame n - 1: no frame is skipped.
C4_ComparesWithPrecedingFrame ==
    lastCall.ran =>
        IF lastCall.clsPrev.frame = -1
        THEN lastCall.prevUsed = {}
        ELSE /\ lastCall.clsPrev.frame = lastCall.frame - 1
             /\ lastCall.prevUsed = lastCall.clsPrev.ids

\* C5: a raising sink does not make the frame call fail: the call processes
\* the remaining fallen ids, stores the previous-fallen-set, advances the
\* frame counter and returns the fall count.
C5_SinkFailureContained ==
    (lastCall.ran /\ SinkFailedInCall) =>
        /\ ~lastCall.raised
        /\ lastCall.ret = Int_(fallcount)
        /\ Len(lastCall.writes) = Len(NewAgainstStored)
        /\ DOMAIN prev_fallen = lastCall.fallenOut
        /\ framecount = lastCall.framecountBefore + 1

\* C6: the increment made for a transition whose sink call raised is kept, and
\* the transition is counted once: an id whose transition hit a sink failure
\* and that stayed in the fallen-set since is not counted again.
C6_FailedTransitionCountedOnce ==
    lastCall.ran =>
        /\ fallcount = lastCall.countBefore + Len(lastCall.writes)
        /\ \A k \in 1 .. Len(lastCall.writes) :
              lastCall.writes[k].id \notin lastCall.pendingBefore

\* C7: a frame with zero observations raises no error, still updates the
\* tracker (with the empty list), still runs classifier and deduplicator, and
\* returns the running fall counter.
C7_EmptyFrameIsOrdinary ==
    (lastCall.frame >= 0 /\ lastCall.centroids = <<>>) =>
        /\ lastCall.ret = Int_(fallcount)
        /\ ct.calls = lastCall.trackerCallsBefore + 1
        /\ lastCall.stages = <<"Tracker", "Classifier", "Deduplicator">>

\* an annotation yields a valid centroid: some keypoint is visible and both
\* shoulder mid-point coordinates are non-zero
HasCentroid(ann) == ann.vis /\ Mid(ann.x5, ann.x6) # 0 /\ Mid(ann.y5, ann.y6) # 0

Malformed(ann) == ann.bbox[3] <= 0 \/ ann.bbox[4] <= 0 \/ ~HasCentroid(ann)

\* C8: the list passed to the tracker holds at most one observation per
\* annotation, each from an annotation that is not malformed (valid centroid,
\* positive bbox width and height), carrying that annotation's own centroid.
C8_MalformedDropped ==
    lastCall.ran =>
        /\ \A j, k \in 1 .. Len(lastCall.src) : j < k => lastCall.src[j] < lastCall.src[k]
        /\ \A k \in 1 .. Len(lastCall.centroids) :
              LET ann == lastCall.annotations[lastCall.src[k]]
                  c == lastCall.centroids[k]
              IN /\ ~Malformed(ann)
                 /\ c[5] > 0
                 /\ c[6] > 0
                 /\ c[1] = Mid(ann.x5, ann.x6)
                 /\ c[2] = Mid(ann.y5, ann.y6)

\* C9: in every frame call the stages run once each in the order Tracker,
\* Classifier, Deduplicator; the classifier gets the mapping the tracker
\* returned in this call and a frame index that is 0 on the first call and
\* one more than the index of the previous frame call afterwards.
C9_StagesInOrder ==
    lastCall.ran =>
        /\ lastCall.stages = <<"Tracker", "Classifier", "Deduplicator">>
        /\ lastCall.clsTracks = lastCall.trackerOut
        /\ lastCall.clsFrame = IF lastCall.firstCall THEN 0
                               ELSE lastCall.prevClsFrame + 1

\* C10: as long as the sink has not failed, the number of sink invocations
\* equals the fall counter and the sequence numbers passed to the sink are
\* 1, 2, ..., fallcount, in this order.
C10_SequenceNumbers ==
    SinkReliableSoFar =>
        /\ Len(imgwriter) = fallcount
        /\ \A k \in 1 .. Len(imgwriter) : imgwriter[k].seq = k

\* three falls were counted, two of them in the same frame, no sink failure
C10_Witness ==
    /\ SinkReliableSoFar
    /\ fallcount = 3
    /\ \E k \in 1 .. 2 : imgwriter[k].frame = imgwriter[k + 1].frame

====
